---- MODULE Spec2Model ----
(***************************************************************************)
(* egui-directx10: the texture pool (src/src/texture.rs) and the frame     *)
(* renderer (src/src/lib.rs) as a state machine.                           *)
(*                                                                         *)
(* The Direct3D10 device is modelled as a spy: every device call the code  *)
(* makes is appended, in program order, to `calls`, and the pipeline state *)
(* the calls leave bound is kept in `ctx`.  A fallible device call fails   *)
(* when its ordinal among the fallible calls of one render equals the      *)
(* failure input `failAt` (0: no call fails).  The content of a managed    *)
(* texture on the device is kept in its `tex.data`.                        *)
(***************************************************************************)
EXTENDS Integers, Sequences, FiniteSets, TLC

VARIABLES
    texture_pool,   \* Renderer.texture_pool: [pool, next_user_texture_id]
    ctx,            \* the pipeline state bound on the device context
    calls,          \* device calls and pool mutations of the last operation, in order
    steps,          \* one record per texture delta the last update processed
    call,           \* the last public operation: its name, arguments and result
    registered,     \* history: ids registered and not unregistered since |-> the view registered
    unregistered,   \* history: ids for which unregister_user_texture has returned true
    uploaded,       \* history: ids some full-upload delta has been applied for
    device,         \* what the device does with a call its contract forbids
    batchesOk,      \* history, in Spec: every texture update so far has returned Ok
    resident        \* history, in Spec: managed ids the batches so far uploaded and did not free

vars == <<texture_pool, ctx, calls, steps, call, registered, unregistered,
          uploaded, device, batchesOk, resident>>

----------------------------------------------------------------------------
(* Bounds *)

MaxUserTextures == 2    \* register_user_texture calls explored
MaxDeltas == 2          \* texture deltas of one batch, set and free together
MaxFrameDeltas == 1     \* the same, for the frames that carry shapes
MaxPrimitives == 1      \* primitives the tessellator yields for one frame
MaxMeshes == 2          \* the same, for the frames of several meshes
MaxTargetSize == 3      \* width and height of the render target, in pixels
MaxPartialDeltas == 2   \* texture deltas of one batch of partial uploads

----------------------------------------------------------------------------
(* egui's types, as the code uses them *)

Managed(n) == [ns |-> "Managed", n |-> n]
User(n) == [ns |-> "User", n |-> n]

None == {}
Some(x) == {x}
unwrap(o) == CHOOSE x \in o : TRUE

ColorImage(w, h, px) == [size |-> <<w, h>>, pixels |-> px]
width(image) == image.size[1]
height(image) == image.size[2]

ImageDelta(image, pos) == [image |-> image, pos |-> pos]
is_whole(delta) == delta.pos = None

----------------------------------------------------------------------------
(* texture.rs: Texture, TexturePool *)

NoTexture2D == [Width |-> 0, Height |-> 0, data |-> <<>>]

\* a resource view the caller owns
UserSrv(name) == [owner |-> "caller", name |-> name, tex |-> NoTexture2D]

ManagedTexture(tex, srv, pixels, w) ==
    [kind |-> "Managed", tex |-> tex, srv |-> srv, pixels |-> pixels, width |-> w]

UserTexture(srv) == [kind |-> "User", srv |-> srv]

is_managed(t) == t.kind = "Managed"
is_user(t) == t.kind = "User"

EmptyPool == [k \in {} |-> UserTexture(UserSrv(""))]

\* HashMap::insert, HashMap::remove, HashMap::get
insert(pool, tid, t) ==
    [k \in DOMAIN pool \cup {tid} |-> IF k = tid THEN t ELSE pool[k]]
remove(pool, tid) == [k \in DOMAIN pool \ {tid} |-> pool[k]]
get(pool, tid) == IF tid \in DOMAIN pool THEN Some(pool[tid]) ELSE None

new == [pool |-> EmptyPool, next_user_texture_id |-> 0]

get_srv(tp, tid) == {t.srv : t \in get(tp.pool, tid)}

\* the pool after the call, and the id returned
register_user_texture(tp, srv) ==
    LET id == User(tp.next_user_texture_id) IN
    [tp |-> [pool |-> insert(tp.pool, id, UserTexture(srv)),
             next_user_texture_id |-> tp.next_user_texture_id + 1],
     ret |-> id]

unregister_any_texture(tp, tid) ==
    IF tid \in DOMAIN tp.pool
    THEN [tp |-> [tp EXCEPT !.pool = remove(tp.pool, tid)], ret |-> TRUE]
    ELSE [tp |-> tp, ret |-> FALSE]

\* the pool after the call, and the boolean returned
unregister_user_texture(tp, tid) ==
    IF \E t \in get(tp.pool, tid) : is_user(t)
    THEN [tp |-> [tp EXCEPT !.pool = remove(tp.pool, tid)], ret |-> TRUE]
    ELSE [tp |-> tp, ret |-> FALSE]

----------------------------------------------------------------------------
(* texture.rs: update, update_partial, create_managed_texture *)

BytesPerPixel == 4

Min(S) == CHOOSE m \in S : \A k \in S : m <= k
Max(S) == CHOOSE m \in S : \A k \in S : m >= k

create_managed_texture_height(data, n, failAt) ==
    LET w == height(data)
        pixels == data.pixels
        tex == [Width |-> width(data), Height |-> height(data),
                Usage |-> "DYNAMIC", data |-> pixels]
        srv == [owner |-> "pool", name |-> "", tex |-> tex]
        c1 == [call |-> "CreateTexture2D", tex |-> tex,
               SysMemPitch |-> w * BytesPerPixel]
        c2 == [call |-> "CreateShaderResourceView", tex |-> tex]
    IN  IF n + 1 = failAt
        THEN [res |-> "Err", n |-> n + 1, calls |-> <<c1>>, tex |-> None]
        ELSE IF n + 2 = failAt
        THEN [res |-> "Err", n |-> n + 2, calls |-> <<c1, c2>>, tex |-> None]
        ELSE [res |-> "Ok", n |-> n + 2, calls |-> <<c1, c2>>,
              tex |-> Some(ManagedTexture(tex, srv, pixels, w))]

\* The result of Self::create_managed_texture(device, data) when `n` fallible
\* device calls were made before it: CreateTexture2D is call n+1 and
\* CreateShaderResourceView is call n+2; `?` returns the first failure.
create_managed_texture(data, n, failAt) ==
    LET w == width(data)
        pixels == data.pixels
        tex == [Width |-> width(data), Height |-> height(data),
                Usage |-> "DYNAMIC", data |-> pixels]
        srv == [owner |-> "pool", name |-> "", tex |-> tex]
        c1 == [call |-> "CreateTexture2D", tex |-> tex,
               SysMemPitch |-> w * BytesPerPixel]
        c2 == [call |-> "CreateShaderResourceView", tex |-> tex]
    IN  IF n + 1 = failAt
        THEN [res |-> "Err", n |-> n + 1, calls |-> <<c1>>, tex |-> None]
        ELSE IF n + 2 = failAt
        THEN [res |-> "Err", n |-> n + 2, calls |-> <<c1, c2>>, tex |-> None]
        ELSE [res |-> "Ok", n |-> n + 2, calls |-> <<c1, c2>>,
              tex |-> Some(ManagedTexture(tex, srv, pixels, w))]

\* ctx.UpdateSubresource(tex, 0, box, data, row_pitch, 0): the texture after
\* the call.  The pixel at column x, row y of the box is read from `data` at
\* row y - top (of row_pitch bytes), column x - left; the part of the box
\* outside the texture addresses no pixel.  The Direct3D10 contract allows no
\* destination created with D3D10_USAGE_DYNAMIC, as create_managed_texture
\* creates them: a device either writes the box all the same or discards the
\* call, which is what `device` says.
UpdateSubresource(tex, box, data, row_pitch) ==
    LET w == row_pitch \div BytesPerPixel
        inside(x, y) == /\ box.left <= x /\ x < box.right
                        /\ box.top <= y /\ y < box.bottom
        written == [i \in 1 .. Len(tex.data) |->
                      LET x == (i - 1) % tex.Width
                          y == (i - 1) \div tex.Width
                      IN  IF inside(x, y)
                          THEN data[(y - box.top) * w + (x - box.left) + 1]
                          ELSE tex.data[i]]
    IN  IF tex.Usage = "DYNAMIC" /\ device = "discards" THEN tex
        ELSE [tex EXCEPT !.data = written]

update_partial_sub_width(old, image, pos) ==
    IF ~is_managed(old)
    THEN [res |-> "Ok", tex |-> old, calls |-> <<>>]
    ELSE
    LET nx == pos[1]
        ny == pos[2]
        fw == width(image)
        fh == height(image)
        row_pitch == fw * BytesPerPixel
        fracs == 0 .. (fh * fw - 1)
        whole(frac) == (ny + (frac \div fw)) * fw + nx + (frac % fw)
        bad == {frac \in fracs : \/ whole(frac) >= Len(old.pixels)
                                 \/ frac >= Len(image.pixels)}
        stop == IF bad = {} THEN fh * fw ELSE Min(bad)
        written(i) == {frac \in fracs : frac < stop /\ whole(frac) = i}
        pixels == [i \in 1 .. Len(old.pixels) |->
                     IF written(i - 1) = {} THEN old.pixels[i]
                     ELSE image.pixels[Max(written(i - 1)) + 1]]
        update_data == [j \in 1 .. fh * fw |-> image.pixels[j]]
        subresource_data == [left |-> nx, top |-> ny, front |-> 0,
                             right |-> nx + fw, bottom |-> ny + fh, back |-> 1]
        tex == UpdateSubresource(old.tex, subresource_data, update_data,
                                 row_pitch)
    IN  IF bad # {}
        THEN [res |-> "Panic", tex |-> [old EXCEPT !.pixels = pixels],
              calls |-> <<>>]
        ELSE [res |-> "Ok",
              tex |-> [old EXCEPT !.pixels = pixels, !.tex = tex,
                                  !.srv = [@ EXCEPT !.tex = tex]],
              calls |-> <<[call |-> "UpdateSubresource", tex |-> old.tex,
                           box |-> subresource_data, data |-> update_data,
                           row_pitch |-> row_pitch]>>]

\* The result of Self::update_partial(ctx, old, image, [nx, ny]).  The loops
\* visit the sub-image in the order frac = y * f.width() + x; an index past the
\* end of old.pixels (or of f.pixels) panics there, with the earlier writes
\* done.  A pixel of update_data stands for the 4 bytes of to_array().
update_partial(old, image, pos) ==
    IF ~is_managed(old)
    THEN [res |-> "Ok", tex |-> old, calls |-> <<>>]
    ELSE
    LET nx == pos[1]
        ny == pos[2]
        fw == width(image)
        fh == height(image)
        row_pitch == fw * BytesPerPixel
        fracs == 0 .. (fh * fw - 1)
        whole(frac) == (ny + (frac \div fw)) * old.width + nx + (frac % fw)
        bad == {frac \in fracs : \/ whole(frac) >= Len(old.pixels)
                                 \/ frac >= Len(image.pixels)}
        stop == IF bad = {} THEN fh * fw ELSE Min(bad)
        written(i) == {frac \in fracs : frac < stop /\ whole(frac) = i}
        pixels == [i \in 1 .. Len(old.pixels) |->
                     IF written(i - 1) = {} THEN old.pixels[i]
                     ELSE image.pixels[Max(written(i - 1)) + 1]]
        update_data == [j \in 1 .. fh * fw |-> image.pixels[j]]
        subresource_data == [left |-> nx, top |-> ny, front |-> 0,
                             right |-> nx + fw, bottom |-> ny + fh, back |-> 1]
        tex == UpdateSubresource(old.tex, subresource_data, update_data,
                                 row_pitch)
    IN  IF bad # {}
        THEN [res |-> "Panic", tex |-> [old EXCEPT !.pixels = pixels],
              calls |-> <<>>]
        ELSE [res |-> "Ok",
              tex |-> [old EXCEPT !.pixels = pixels, !.tex = tex,
                                  !.srv = [@ EXCEPT !.tex = tex]],
              calls |-> <<[call |-> "UpdateSubresource", tex |-> old.tex,
                           box |-> subresource_data, data |-> update_data,
                           row_pitch |-> row_pitch]>>]

\* One record of `steps`.
Step(phase, tid, ev, pre, post) ==
    [phase |-> phase, tid |-> tid, ev |-> ev, pre |-> pre, post |-> post]

\* `for (tid, delta) in delta.set`, first branch: a whole image that is not
\* empty replaces the entry of tid.  u = [pool, res, n, calls, steps] is the
\* running state of update.
set_whole(u, tid, delta, failAt) ==
    LET c == create_managed_texture(delta.image, u.n, failAt) IN
    IF c.res = "Ok"
    THEN LET p == insert(u.pool, tid, unwrap(c.tex)) IN
         [pool |-> p, res |-> "Ok", n |-> c.n,
          calls |-> u.calls \o c.calls
                    \o <<[call |-> "pool.insert", tid |-> tid]>>,
          steps |-> Append(u.steps, Step("set", tid, "insert", u.pool, p))]
    ELSE [pool |-> u.pool, res |-> "Err", n |-> c.n,
          calls |-> u.calls \o c.calls,
          steps |-> Append(u.steps, Step("set", tid, "error", u.pool, u.pool))]

\* second branch: tid holds a Managed entry; delta.pos.unwrap() panics on None
set_partial(u, tid, delta) ==
    IF delta.pos = None
    THEN [u EXCEPT !.res = "Panic",
                   !.steps = Append(@, Step("set", tid, "panic",
                                            u.pool, u.pool))]
    ELSE LET r == update_partial(u.pool[tid], delta.image, unwrap(delta.pos))
             p == insert(u.pool, tid, r.tex)
         IN  [pool |-> p, res |-> r.res, n |-> u.n,
              calls |-> u.calls \o r.calls,
              steps |-> Append(u.steps,
                               Step("set", tid,
                                    IF r.res = "Ok" THEN "partial" ELSE "panic",
                                    u.pool, p))]

set_ignored_err(u, tid) ==
    [u EXCEPT !.res = "Err",
              !.steps = Append(@, Step("set", tid, "error", u.pool, u.pool))]

\* third branch: log::warn!, the request is ignored
set_ignored(u, tid) ==
    [u EXCEPT !.steps = Append(@, Step("set", tid, "reject", u.pool, u.pool))]

set_delta_any_size(u, tid, delta, failAt) ==
    IF is_whole(delta)
    THEN set_whole(u, tid, delta, failAt)
    ELSE IF \E t \in get(u.pool, tid) : is_managed(t)
    THEN set_partial(u, tid, delta)
    ELSE set_ignored(u, tid)

\* The body of `for (tid, delta) in delta.set`.
set_delta(u, tid, delta, failAt) ==
    IF is_whole(delta) /\ width(delta.image) > 0 /\ height(delta.image) > 0
    THEN set_whole(u, tid, delta, failAt)
    ELSE IF \E t \in get(u.pool, tid) : is_managed(t)
    THEN set_partial(u, tid, delta)
    ELSE set_ignored(u, tid)

free_delta_any(u, tid) ==
    IF tid \in DOMAIN u.pool
    THEN LET p == remove(u.pool, tid) IN
         [u EXCEPT !.pool = p,
                   !.calls = Append(@, [call |-> "pool.remove", tid |-> tid]),
                   !.steps = Append(@, Step("free", tid, "remove", u.pool, p))]
    ELSE [u EXCEPT !.steps = Append(@, Step("free", tid, "keep", u.pool, u.pool))]

\* The body of `for tid in delta.free`.
free_delta(u, tid) ==
    IF \E t \in get(u.pool, tid) : is_managed(t)
    THEN LET p == remove(u.pool, tid) IN
         [u EXCEPT !.pool = p,
                   !.calls = Append(@, [call |-> "pool.remove", tid |-> tid]),
                   !.steps = Append(@, Step("free", tid, "remove", u.pool, p))]
    ELSE [u EXCEPT !.steps = Append(@, Step("free", tid, "keep", u.pool, u.pool))]

RECURSIVE set_loop(_, _, _)
set_loop(u, set, failAt) ==
    IF set = <<>> \/ u.res # "Ok" THEN u
    ELSE set_loop(set_delta(u, Head(set)[1], Head(set)[2], failAt),
                  Tail(set), failAt)

RECURSIVE free_loop(_, _)
free_loop(u, free) ==
    IF free = <<>> THEN u
    ELSE free_loop(free_delta(u, Head(free)), Tail(free))

update_free_first(tp, delta, failAt) ==
    LET u0 == [pool |-> tp.pool, res |-> "Ok", n |-> 0,
               calls |-> <<>>, steps |-> <<>>]
    IN  set_loop(free_loop(u0, delta.free), delta.set, failAt)

update_free_after_error(tp, delta, failAt) ==
    LET u0 == [pool |-> tp.pool, res |-> "Ok", n |-> 0,
               calls |-> <<>>, steps |-> <<>>]
        u1 == set_loop(u0, delta.set, failAt)
    IN  IF u1.res = "Panic" THEN u1
        ELSE [free_loop(u1, delta.free) EXCEPT !.res = u1.res]

\* TexturePool::update(ctx, delta): all of delta.set, then all of delta.free;
\* an error or a panic in the first loop leaves the function at once.
update(tp, delta, failAt) ==
    LET u0 == [pool |-> tp.pool, res |-> "Ok", n |-> 0,
               calls |-> <<>>, steps |-> <<>>]
        u1 == set_loop(u0, delta.set, failAt)
    IN  IF u1.res # "Ok" THEN u1 ELSE free_loop(u1, delta.free)

----------------------------------------------------------------------------
(* lib.rs: Renderer::render, setup, draw_mesh *)

\* f32 values, modelled as exact fractions <<numerator, denominator>> with a
\* positive denominator, in lowest terms.
RECURSIVE GCD(_, _)
GCD(a, b) == IF b = 0 THEN a ELSE GCD(b, a % b)
Abs(a) == IF a < 0 THEN -a ELSE a
Frac(a, b) ==
    LET g == GCD(Abs(a), Abs(b))
        sgn == IF b < 0 THEN -1 ELSE 1
    IN  <<sgn * (a \div g), sgn * (b \div g)>>
F(a) == <<a, 1>>
FMul(x, y) == Frac(x[1] * y[1], x[2] * y[2])
FDiv(x, y) == Frac(x[1] * y[2], x[2] * y[1])
FSub(x, y) == Frac(x[1] * y[2] - y[1] * x[2], x[2] * y[2])

Rect(l, t, r, b) == [left |-> l, top |-> t, right |-> r, bottom |-> b]

\* What the caller has bound before the renderer touches the context.
CallerSrv == UserSrv("caller")
CallerState ==
    [topology |-> "caller", input_layout |-> "caller", vs |-> "caller",
     ps |-> "caller", rs |-> "caller", viewport |-> <<0, 0>>,
     sampler0 |-> "caller", rtv |-> "caller", blend |-> "caller",
     vb |-> <<>>, ib |-> <<>>, scissor |-> Rect(0, 0, 0, 0),
     srv0 |-> CallerSrv]

\* get_render_target_size(rtv): GetResource and the cast to ID3D10Texture2D
\* are the fallible calls n+1 and n+2.
get_render_target_size(rt, n, failAt) ==
    IF n + 1 = failAt
    THEN [res |-> "Err", n |-> n + 1, size |-> <<0, 0>>,
          calls |-> <<[call |-> "GetResource"]>>]
    ELSE IF n + 2 = failAt
    THEN [res |-> "Err", n |-> n + 2, size |-> <<0, 0>>,
          calls |-> <<[call |-> "GetResource"], [call |-> "cast"]>>]
    ELSE [res |-> "Ok", n |-> n + 2, size |-> <<rt.Width, rt.Height>>,
          calls |-> <<[call |-> "GetResource"], [call |-> "cast"],
                      [call |-> "GetDesc"]>>]

setup_unbinds_srv(c, rt, frame_size) ==
    [ctx |-> [c EXCEPT !.topology = "TRIANGLELIST",
                       !.input_layout = "input_layout",
                       !.vs = "vertex_shader",
                       !.ps = "pixel_shader",
                       !.rs = "rasterizer_state",
                       !.viewport = frame_size,
                       !.sampler0 = "sampler_state",
                       !.rtv = rt.name,
                       !.blend = "blend_state",
                       !.srv0 = UserSrv("")],
     calls |-> <<[call |-> "IASetPrimitiveTopology"],
                 [call |-> "IASetInputLayout"],
                 [call |-> "VSSetShader"],
                 [call |-> "PSSetShader"],
                 [call |-> "RSSetState"],
                 [call |-> "RSSetViewports", viewport |-> frame_size],
                 [call |-> "PSSetSamplers"],
                 [call |-> "OMSetRenderTargets", rtv |-> rt.name],
                 [call |-> "OMSetBlendState"]>>]

\* setup(ctx, render_target, frame_size): the context after it and its calls.
setup(c, rt, frame_size) ==
    [ctx |-> [c EXCEPT !.topology = "TRIANGLELIST",
                       !.input_layout = "input_layout",
                       !.vs = "vertex_shader",
                       !.ps = "pixel_shader",
                       !.rs = "rasterizer_state",
                       !.viewport = frame_size,
                       !.sampler0 = "sampler_state",
                       !.rtv = rt.name,
                       !.blend = "blend_state"],
     calls |-> <<[call |-> "IASetPrimitiveTopology"],
                 [call |-> "IASetInputLayout"],
                 [call |-> "VSSetShader"],
                 [call |-> "PSSetShader"],
                 [call |-> "RSSetState"],
                 [call |-> "RSSetViewports", viewport |-> frame_size],
                 [call |-> "PSSetSamplers"],
                 [call |-> "OMSetRenderTargets", rtv |-> rt.name],
                 [call |-> "OMSetBlendState"]>>]

mesh_data_unscaled_clip(prim, frame_size, pixels_per_point, zoom_factor) ==
    LET frame_size_scaled == <<FDiv(F(frame_size[1]), F(pixels_per_point)),
                               FDiv(F(frame_size[2]), F(pixels_per_point))>>
    IN
    IF prim.kind # "Mesh" THEN None
    ELSE IF Len(prim.indices) = 0 THEN None
    ELSE IF Len(prim.indices) % 3 # 0 THEN None
    ELSE Some([vtx |-> [i \in 1 .. Len(prim.vertices) |->
                 LET v == prim.vertices[i] IN
                 [pos |-> <<FSub(FMul(FDiv(FMul(F(v.pos[1]), F(zoom_factor)),
                                           frame_size_scaled[1]), F(2)),
                                 F(1)),
                            FSub(F(1),
                                 FMul(FDiv(FMul(F(v.pos[2]), F(zoom_factor)),
                                           frame_size_scaled[2]), F(2)))>>,
                  uv |-> v.uv,
                  color |-> [k \in 1 .. 4 |-> FDiv(F(v.color[k]), F(255))]]],
               idx |-> prim.indices,
               tex |-> prim.texture_id,
               clip_rect |-> prim.clip_rect])

mesh_data_no_flip(prim, frame_size, pixels_per_point, zoom_factor) ==
    LET frame_size_scaled == <<FDiv(F(frame_size[1]), F(pixels_per_point)),
                               FDiv(F(frame_size[2]), F(pixels_per_point))>>
        scale == pixels_per_point * zoom_factor
    IN
    IF prim.kind # "Mesh" THEN None
    ELSE IF Len(prim.indices) = 0 THEN None
    ELSE IF Len(prim.indices) % 3 # 0 THEN None
    ELSE Some([vtx |-> [i \in 1 .. Len(prim.vertices) |->
                 LET v == prim.vertices[i] IN
                 [pos |-> <<FSub(FMul(FDiv(FMul(F(v.pos[1]), F(zoom_factor)),
                                           frame_size_scaled[1]), F(2)),
                                 F(1)),
                            FSub(FMul(FDiv(FMul(F(v.pos[2]), F(zoom_factor)),
                                           frame_size_scaled[2]), F(2)),
                                 F(1))>>,
                  uv |-> v.uv,
                  color |-> [k \in 1 .. 4 |-> FDiv(F(v.color[k]), F(255))]]],
               idx |-> prim.indices,
               tex |-> prim.texture_id,
               clip_rect |-> Rect(prim.clip_rect.left * scale,
                                  prim.clip_rect.top * scale,
                                  prim.clip_rect.right * scale,
                                  prim.clip_rect.bottom * scale)])

mesh_data_any_count(prim, frame_size, pixels_per_point, zoom_factor) ==
    LET frame_size_scaled == <<FDiv(F(frame_size[1]), F(pixels_per_point)),
                               FDiv(F(frame_size[2]), F(pixels_per_point))>>
        scale == pixels_per_point * zoom_factor
    IN
    IF prim.kind # "Mesh" THEN None
    ELSE IF Len(prim.indices) = 0 THEN None
    ELSE Some([vtx |-> [i \in 1 .. Len(prim.vertices) |->
                 LET v == prim.vertices[i] IN
                 [pos |-> <<FSub(FMul(FDiv(FMul(F(v.pos[1]), F(zoom_factor)),
                                           frame_size_scaled[1]), F(2)),
                                 F(1)),
                            FSub(F(1),
                                 FMul(FDiv(FMul(F(v.pos[2]), F(zoom_factor)),
                                           frame_size_scaled[2]), F(2)))>>,
                  uv |-> v.uv,
                  color |-> [k \in 1 .. 4 |-> FDiv(F(v.color[k]), F(255))]]],
               idx |-> prim.indices,
               tex |-> prim.texture_id,
               clip_rect |-> Rect(prim.clip_rect.left * scale,
                                  prim.clip_rect.top * scale,
                                  prim.clip_rect.right * scale,
                                  prim.clip_rect.bottom * scale)])

\* The two filter_map closures of render: the MeshData of a primitive, or None.
\* Positions, pixels_per_point and zoom_factor are whole numbers here, so the
\* clip rectangle stays whole and the `as _` casts of draw_mesh change nothing.
mesh_data(prim, frame_size, pixels_per_point, zoom_factor) ==
    LET frame_size_scaled == <<FDiv(F(frame_size[1]), F(pixels_per_point)),
                               FDiv(F(frame_size[2]), F(pixels_per_point))>>
        scale == pixels_per_point * zoom_factor
    IN
    IF prim.kind # "Mesh" THEN None
    ELSE IF Len(prim.indices) = 0 THEN None
    ELSE IF Len(prim.indices) % 3 # 0 THEN None
    ELSE Some([vtx |-> [i \in 1 .. Len(prim.vertices) |->
                 LET v == prim.vertices[i] IN
                 [pos |-> <<FSub(FMul(FDiv(FMul(F(v.pos[1]), F(zoom_factor)),
                                           frame_size_scaled[1]), F(2)),
                                 F(1)),
                            FSub(F(1),
                                 FMul(FDiv(FMul(F(v.pos[2]), F(zoom_factor)),
                                           frame_size_scaled[2]), F(2)))>>,
                  uv |-> v.uv,
                  color |-> [k \in 1 .. 4 |-> FDiv(F(v.color[k]), F(255))]]],
               idx |-> prim.indices,
               tex |-> prim.texture_id,
               clip_rect |-> Rect(prim.clip_rect.left * scale,
                                  prim.clip_rect.top * scale,
                                  prim.clip_rect.right * scale,
                                  prim.clip_rect.bottom * scale)])

draw_mesh_skip_unresolved(d, tp, mesh, k, failAt) ==
    LET ib == [kind |-> "ib", mesh |-> k, data |-> mesh.idx]
        vb == [kind |-> "vb", mesh |-> k, data |-> mesh.vtx]
        cib == [call |-> "CreateBuffer", mesh |-> k, buf |-> ib]
        cvb == [call |-> "CreateBuffer", mesh |-> k, buf |-> vb]
        srv == get_srv(tp, mesh.tex)
    IN  IF d.n + 1 = failAt
        THEN [d EXCEPT !.res = "Err", !.n = d.n + 1,
                       !.calls = Append(@, cib)]
        ELSE IF d.n + 2 = failAt
        THEN [d EXCEPT !.res = "Err", !.n = d.n + 2,
                       !.calls = @ \o <<cib, cvb>>]
        ELSE [ctx |-> [d.ctx EXCEPT !.vb = <<vb>>, !.ib = <<ib>>,
                                    !.scissor = mesh.clip_rect,
                                    !.srv0 = IF srv # None THEN unwrap(srv)
                                             ELSE @],
              res |-> "Ok",
              n |-> d.n + 2,
              calls |-> d.calls \o
                  <<cib, cvb,
                    [call |-> "IASetVertexBuffers", mesh |-> k, buf |-> vb],
                    [call |-> "IASetIndexBuffer", mesh |-> k, buf |-> ib],
                    [call |-> "RSSetScissorRects", mesh |-> k,
                     rect |-> mesh.clip_rect]>>
                  \o (IF srv # None
                      THEN <<[call |-> "PSSetShaderResources", mesh |-> k,
                              srv |-> unwrap(srv)],
                             [call |-> "DrawIndexed", mesh |-> k,
                              IndexCount |-> Len(mesh.idx)]>>
                      ELSE <<>>)]

draw_mesh_bind_first(d, tp, mesh, k, failAt) ==
    LET ib == [kind |-> "ib", mesh |-> k, data |-> mesh.idx]
        vb == [kind |-> "vb", mesh |-> k, data |-> mesh.vtx]
        cib == [call |-> "CreateBuffer", mesh |-> k, buf |-> ib]
        cvb == [call |-> "CreateBuffer", mesh |-> k, buf |-> vb]
        srv == get_srv(tp, mesh.tex)
    IN  IF d.n + 1 = failAt
        THEN [d EXCEPT !.res = "Err", !.n = d.n + 1,
                       !.calls = Append(@, cib)]
        ELSE IF d.n + 2 = failAt
        THEN [d EXCEPT !.res = "Err", !.n = d.n + 2,
                       !.ctx = [@ EXCEPT !.ib = <<ib>>],
                       !.calls = @ \o <<cib,
                           [call |-> "IASetIndexBuffer", mesh |-> k, buf |-> ib],
                           cvb>>]
        ELSE [ctx |-> [d.ctx EXCEPT !.vb = <<vb>>, !.ib = <<ib>>,
                                    !.scissor = mesh.clip_rect,
                                    !.srv0 = IF srv # None THEN unwrap(srv)
                                             ELSE @],
              res |-> "Ok",
              n |-> d.n + 2,
              calls |-> d.calls \o
                  <<cib, cvb,
                    [call |-> "IASetVertexBuffers", mesh |-> k, buf |-> vb],
                    [call |-> "IASetIndexBuffer", mesh |-> k, buf |-> ib],
                    [call |-> "RSSetScissorRects", mesh |-> k,
                     rect |-> mesh.clip_rect]>>
                  \o (IF srv # None
                      THEN <<[call |-> "PSSetShaderResources", mesh |-> k,
                              srv |-> unwrap(srv)]>>
                      ELSE <<>>)
                  \o <<[call |-> "DrawIndexed", mesh |-> k,
                        IndexCount |-> Len(mesh.idx)]>>]

\* draw_mesh(device, device_context, texture_pool, mesh) on the running state
\* d = [ctx, res, n, calls]; `k` is the mesh's position among the primitives,
\* and the spy tags each call with it.
draw_mesh(d, tp, mesh, k, failAt) ==
    LET ib == [kind |-> "ib", mesh |-> k, data |-> mesh.idx]
        vb == [kind |-> "vb", mesh |-> k, data |-> mesh.vtx]
        cib == [call |-> "CreateBuffer", mesh |-> k, buf |-> ib]
        cvb == [call |-> "CreateBuffer", mesh |-> k, buf |-> vb]
        srv == get_srv(tp, mesh.tex)
    IN  IF d.n + 1 = failAt
        THEN [d EXCEPT !.res = "Err", !.n = d.n + 1,
                       !.calls = Append(@, cib)]
        ELSE IF d.n + 2 = failAt
        THEN [d EXCEPT !.res = "Err", !.n = d.n + 2,
                       !.calls = @ \o <<cib, cvb>>]
        ELSE [ctx |-> [d.ctx EXCEPT !.vb = <<vb>>, !.ib = <<ib>>,
                                    !.scissor = mesh.clip_rect,
                                    !.srv0 = IF srv # None THEN unwrap(srv)
                                             ELSE @],
              res |-> "Ok",
              n |-> d.n + 2,
              calls |-> d.calls \o
                  <<cib, cvb,
                    [call |-> "IASetVertexBuffers", mesh |-> k, buf |-> vb],
                    [call |-> "IASetIndexBuffer", mesh |-> k, buf |-> ib],
                    [call |-> "RSSetScissorRects", mesh |-> k,
                     rect |-> mesh.clip_rect]>>
                  \o (IF srv # None
                      THEN <<[call |-> "PSSetShaderResources", mesh |-> k,
                              srv |-> unwrap(srv)]>>
                      ELSE <<>>)
                  \o <<[call |-> "DrawIndexed", mesh |-> k,
                        IndexCount |-> Len(mesh.idx)]>>]

RECURSIVE draw_loop_first(_, _, _, _, _, _)
draw_loop_first(d, tp, prims, k, scale, failAt) ==
    IF \/ k > Len(prims)
       \/ d.res # "Ok"
       \/ \E j \in DOMAIN d.calls : d.calls[j].call = "DrawIndexed"
    THEN d
    ELSE LET m == mesh_data(prims[k], scale[1], scale[2], scale[3]) IN
         draw_loop_first(IF m = None THEN d
                         ELSE draw_mesh(d, tp, unwrap(m), k, failAt),
                         tp, prims, k + 1, scale, failAt)

RECURSIVE draw_loop(_, _, _, _, _, _)
draw_loop(d, tp, prims, k, scale, failAt) ==
    IF k > Len(prims) \/ d.res # "Ok" THEN d
    ELSE LET m == mesh_data(prims[k], scale[1], scale[2], scale[3]) IN
         draw_loop(IF m = None THEN d ELSE draw_mesh(d, tp, unwrap(m), k, failAt),
                   tp, prims, k + 1, scale, failAt)

\* The result of render: the renderer and the context after the call, the
\* value returned, and what the spy saw.
Outcome(tp1, c, res, n, cs, u) ==
    [tp |-> tp1, ctx |-> c, res |-> res, update |-> u.res, n |-> n,
     calls |-> cs, steps |-> u.steps]

draw_frame_lazy_setup(tp1, c, frame, u, failAt) ==
    LET g == get_render_target_size(frame.render_target, u.n, failAt) IN
    IF g.res # "Ok" THEN Outcome(tp1, c, "Err", g.n, u.calls \o g.calls, u)
    ELSE
    LET s == IF \E k \in DOMAIN frame.prims :
                  mesh_data(frame.prims[k], g.size, frame.pixels_per_point,
                            frame.zoom_factor) # None
             THEN setup(c, frame.render_target, g.size)
             ELSE [ctx |-> c, calls |-> <<>>]
        d == draw_loop([ctx |-> s.ctx, res |-> "Ok", n |-> g.n,
                        calls |-> u.calls \o g.calls \o s.calls],
                       tp1, frame.prims, 1,
                       <<g.size, frame.pixels_per_point, frame.zoom_factor>>,
                       failAt)
    IN  Outcome(tp1, d.ctx, d.res, d.n, d.calls, u)

draw_frame_swallow(tp1, c, frame, u, failAt) ==
    LET g == get_render_target_size(frame.render_target, u.n, failAt) IN
    IF g.res # "Ok" THEN Outcome(tp1, c, "Err", g.n, u.calls \o g.calls, u)
    ELSE
    LET s == setup(c, frame.render_target, g.size)
        d == draw_loop([ctx |-> s.ctx, res |-> "Ok", n |-> g.n,
                        calls |-> u.calls \o g.calls \o s.calls],
                       tp1, frame.prims, 1,
                       <<g.size, frame.pixels_per_point, frame.zoom_factor>>,
                       failAt)
    IN  Outcome(tp1, d.ctx, "Ok", d.n, d.calls, u)

\* Renderer::render from get_render_target_size on: the frame has shapes.
draw_frame(tp1, c, frame, u, failAt) ==
    LET g == get_render_target_size(frame.render_target, u.n, failAt) IN
    IF g.res # "Ok" THEN Outcome(tp1, c, "Err", g.n, u.calls \o g.calls, u)
    ELSE
    LET s == setup(c, frame.render_target, g.size)
        d == draw_loop([ctx |-> s.ctx, res |-> "Ok", n |-> g.n,
                        calls |-> u.calls \o g.calls \o s.calls],
                       tp1, frame.prims, 1,
                       <<g.size, frame.pixels_per_point, frame.zoom_factor>>,
                       failAt)
    IN  Outcome(tp1, d.ctx, d.res, d.n, d.calls, u)

render_frame_unconditional(tp1, c, frame, u, failAt) ==
    draw_frame(tp1, c, frame, u, failAt)

\* Renderer::render after the texture update `u` returned Ok.
render_frame(tp1, c, frame, u, failAt) ==
    IF frame.shapes = 0 THEN Outcome(tp1, c, "Ok", u.n, u.calls, u)
    ELSE draw_frame(tp1, c, frame, u, failAt)

render_empty_check_first(tp, c, frame, failAt) ==
    LET u0 == [pool |-> tp.pool, res |-> "Ok", n |-> 0,
               calls |-> <<>>, steps |-> <<>>]
        u == update(tp, frame.textures_delta, failAt)
        tp1 == [tp EXCEPT !.pool = u.pool]
    IN  IF frame.shapes = 0 THEN Outcome(tp, c, "Ok", 0, <<>>, u0)
        ELSE IF u.res # "Ok" THEN Outcome(tp1, c, u.res, u.n, u.calls, u)
        ELSE draw_frame(tp1, c, frame, u, failAt)

\* Renderer::render(device_context, render_target, egui_ctx, egui_output).
\* `frame` holds the arguments: render_target, zoom_factor (egui_ctx), the
\* fields of egui_output, and `prims`, what egui_ctx.tessellate yields for
\* egui_output.shapes.
render(tp, c, frame, failAt) ==
    LET u == update(tp, frame.textures_delta, failAt)
        tp1 == [tp EXCEPT !.pool = u.pool]
    IN  IF u.res # "Ok" THEN Outcome(tp1, c, u.res, u.n, u.calls, u)
        ELSE render_frame(tp1, c, frame, u, failAt)

----------------------------------------------------------------------------
(* The inputs explored *)

\* the devices a renderer may be created for
Devices == {"writes", "discards"}

UserSrvs == {UserSrv("A"), UserSrv("B")}

\* every id the caller may name
TextureIds == {Managed(0)} \cup {User(i) : i \in 0 .. MaxUserTextures - 1}
\* the ids the texture deltas name
DeltaIds == {Managed(0), User(0)}

ImageA == ColorImage(1, 1, <<1>>)
ImageB == ColorImage(2, 1, <<2, 3>>)
ImageP == ColorImage(1, 1, <<4>>)
ImageZ == ColorImage(0, 0, <<>>)

FullA == ImageDelta(ImageA, None)
FullB == ImageDelta(ImageB, None)
PartialP == ImageDelta(ImageP, Some(<<0, 0>>))
WholeZ == ImageDelta(ImageZ, None)

ImageDeltas == {FullA, FullB, PartialP, WholeZ}

SeqsUpTo(S, n) == UNION {[1 .. k -> S] : k \in 0 .. n}

TexturesDeltas(deltas, n) ==
    {d \in [set : SeqsUpTo(DeltaIds \X deltas, n),
             free : SeqsUpTo(DeltaIds, n)] : Len(d.set) + Len(d.free) <= n}

Vertex(x, y) == [pos |-> <<x, y>>, uv |-> <<0, 0>>,
                 color |-> <<255, 255, 255, 255>>]
Mesh(vertices, indices, tid) ==
    [kind |-> "Mesh", vertices |-> vertices, indices |-> indices,
     texture_id |-> tid, clip_rect |-> Rect(0, 0, 2, 2)]
Triangle(tid) ==
    Mesh(<<Vertex(0, 0), Vertex(2, 0), Vertex(2, 2)>>, <<0, 1, 2>>, tid)
Callback == [kind |-> "Callback", clip_rect |-> Rect(0, 0, 2, 2)]

Primitives ==
    {Triangle(Managed(0)), Triangle(User(0)),
     Mesh(<<Vertex(0, 0), Vertex(2, 0)>>, <<0, 1>>, Managed(0)),
     Mesh(<<>>, <<>>, Managed(0)),
     Callback}

\* primitives with clip rectangles of their own
MeshM == Triangle(Managed(0))
MeshU == [Triangle(User(0)) EXCEPT !.clip_rect = Rect(0, 0, 1, 1)]
MeshOdd == [Mesh(<<Vertex(0, 0), Vertex(2, 0)>>, <<0, 1>>, Managed(0))
              EXCEPT !.clip_rect = Rect(1, 0, 2, 1)]
MeshEmpty == [Mesh(<<>>, <<>>, Managed(0)) EXCEPT !.clip_rect = Rect(0, 1, 1, 2)]
DrawPrimitives == {MeshM, MeshU, MeshOdd, MeshEmpty, Callback}

RenderTarget == [name |-> "render_target", Width |-> 2, Height |-> 2]

Frame(delta, shapes, prims) ==
    [textures_delta |-> delta, shapes |-> shapes, prims |-> prims,
     pixels_per_point |-> 1, zoom_factor |-> 1,
     render_target |-> RenderTarget]

\* frames with an empty shape list (never tessellated)
EmptyFrames == {Frame(d, 0, <<>>) : d \in TexturesDeltas(ImageDeltas, MaxDeltas)}

\* frames with and without shapes, with shorter batches
DrawFrames ==
    LET ds == TexturesDeltas({FullA, PartialP}, MaxFrameDeltas) IN
    {Frame(d, 0, <<>>) : d \in ds}
    \cup {Frame(d, 1, ps) : d \in ds,
                            ps \in SeqsUpTo(Primitives, MaxPrimitives)}

\* a 2x2 texture and sub-images for it: one pixel, a column, a row; the row
\* at (1, 0) runs past the right edge and at (1, 1) past the end of the buffer
Image22 == ColorImage(2, 2, <<1, 2, 3, 4>>)
Sub11 == ColorImage(1, 1, <<5>>)
SubCol == ColorImage(1, 2, <<6, 7>>)
SubRow == ColorImage(2, 1, <<8, 9>>)
Full22 == ImageDelta(Image22, None)
PartialDeltas ==
    {ImageDelta(Sub11, Some(<<1, 1>>)), ImageDelta(SubCol, Some(<<1, 0>>)),
     ImageDelta(SubRow, Some(<<0, 1>>)), ImageDelta(SubRow, Some(<<1, 0>>)),
     ImageDelta(SubRow, Some(<<1, 1>>))}

\* frames with an empty shape list whose deltas upload to Managed(0)
PartialFrames ==
    {Frame(d, 0, <<>>) :
        d \in {b \in TexturesDeltas({Full22} \cup PartialDeltas,
                                   MaxPartialDeltas) :
                 /\ \A i \in DOMAIN b.set : b.set[i][1] = Managed(0)
                 /\ \A i \in DOMAIN b.free : b.free[i] = Managed(0)}}

\* render targets of every size, and one mesh that spans the target: vertices
\* at its top-left and bottom-right corner and at a third corner, each with a
\* uv of its own; pixels_per_point and zoom_factor are 1
RenderTargets ==
    {[name |-> "render_target", Width |-> w, Height |-> h] :
        w \in 1 .. MaxTargetSize, h \in 1 .. MaxTargetSize}
VertexUV(x, y, u, v) == [pos |-> <<x, y>>, uv |-> <<u, v>>,
                         color |-> <<255, 255, 255, 255>>]
CornerMeshes(rt) ==
    {Mesh(<<VertexUV(0, 0, 0, 0), VertexUV(rt.Width, rt.Height, 1, 1), third>>,
          <<0, 1, 2>>, Managed(0)) :
        third \in {VertexUV(rt.Width, 0, 1, 0), VertexUV(0, rt.Height, 0, 1)}}
CornerFrames ==
    UNION {{[Frame([set |-> <<>>, free |-> <<>>], 1, <<m>>)
               EXCEPT !.render_target = rt] : m \in CornerMeshes(rt)} :
           rt \in RenderTargets}

\* frames of several primitives at pixels_per_point 2, with one texture delta
\* for Managed(0) at most
MeshFrames ==
    LET ds == {d \in TexturesDeltas({FullA, PartialP}, 1) :
                 /\ \A i \in DOMAIN d.set : d.set[i][1] = Managed(0)
                 /\ \A i \in DOMAIN d.free : d.free[i] = Managed(0)}
    IN  {[Frame(d, 1, ps) EXCEPT !.pixels_per_point = 2] :
            d \in ds, ps \in SeqsUpTo(DrawPrimitives, MaxMeshes)}

----------------------------------------------------------------------------
(* The state machine *)

Idle == [op |-> "idle", res |-> "Ok"]

Init ==
    /\ texture_pool = new
    /\ ctx = CallerState
    /\ calls = <<>>
    /\ steps = <<>>
    /\ call = Idle
    /\ registered = [k \in {} |-> CallerSrv]
    /\ unregistered = {}
    /\ uploaded = {}
    /\ device \in Devices
    /\ batchesOk = TRUE
    /\ resident = {}

\* The managed ids a batch leaves uploaded, read off the batch alone: those
\* uploaded before it or given a full upload by it, less those it frees.
AfterBatch(ids, delta) ==
    (ids \cup {delta.set[i][1] : i \in {j \in DOMAIN delta.set :
                   /\ delta.set[j][1].ns = "Managed"
                   /\ delta.set[j][2].pos = None
                   /\ delta.set[j][2].image.size[1] > 0
                   /\ delta.set[j][2].image.size[2] > 0}})
      \ {delta.free[i] : i \in DOMAIN delta.free}

Register(srv) ==
    /\ call.op = "idle"
    /\ texture_pool.next_user_texture_id < MaxUserTextures
    /\ \E r \in {register_user_texture(texture_pool, srv)} :
       /\ texture_pool' = r.tp
       /\ call' = [op |-> "register", srv |-> srv, ret |-> r.ret, res |-> "Ok"]
       /\ registered' = [k \in DOMAIN registered \cup {r.ret} |->
                            IF k = r.ret THEN srv ELSE registered[k]]
    /\ calls' = <<>>
    /\ steps' = <<>>
    /\ UNCHANGED <<ctx, unregistered, uploaded, device, batchesOk, resident>>

Unregister(tid) ==
    /\ call.op = "idle"
    /\ \E r \in {unregister_user_texture(texture_pool, tid)} :
       /\ texture_pool' = r.tp
       /\ call' = [op |-> "unregister", tid |-> tid, ret |-> r.ret,
                   res |-> "Ok"]
       /\ unregistered' = IF r.ret THEN unregistered \cup {tid}
                          ELSE unregistered
       /\ registered' = IF r.ret
                        THEN [k \in DOMAIN registered \ {tid} |-> registered[k]]
                        ELSE registered
    /\ calls' = <<>>
    /\ steps' = <<>>
    /\ UNCHANGED <<ctx, uploaded, device, batchesOk, resident>>

RenderCall(frame, failAt) ==
    /\ call.op = "idle"
    /\ \E r \in {render(texture_pool, ctx, frame, failAt)} :
       /\ texture_pool' = r.tp
       /\ ctx' = r.ctx
       /\ calls' = r.calls
       /\ steps' = r.steps
       /\ call' = [op |-> "render", frame |-> frame, failAt |-> failAt,
                   update |-> r.update, res |-> r.res]
       /\ uploaded' = uploaded \cup
              {r.steps[i].tid : i \in {j \in DOMAIN r.steps :
                                         r.steps[j].ev = "insert"}}
    /\ UNCHANGED <<registered, unregistered, device>>

\* render in the specifications of frames and draws, which keep no history of
\* the batches
Render(frame, failAt) ==
    /\ RenderCall(frame, failAt)
    /\ UNCHANGED <<batchesOk, resident>>

\* render in the specification of the texture pool, which records whether
\* every batch so far was applied and what the batches leave uploaded
RenderBatch(frame, failAt) ==
    /\ RenderCall(frame, failAt)
    /\ batchesOk' = (batchesOk /\ call'.update = "Ok")
    /\ resident' = IF batchesOk /\ call'.update = "Ok"
                   THEN AfterBatch(resident, frame.textures_delta)
                   ELSE {}

\* The call returns to the caller, who reads the result and clears the spy;
\* the next call starts from there.  A panic ends the program instead.
Return ==
    /\ call.op # "idle"
    /\ call.res # "Panic"
    /\ call' = Idle
    /\ calls' = <<>>
    /\ steps' = <<>>
    /\ UNCHANGED <<texture_pool, ctx, registered, unregistered, uploaded,
                   device, batchesOk, resident>>

\* the fallible device calls a frame makes when none of them fails
Fallible(frame) == render(texture_pool, ctx, frame, 0).n

DoRegister == call.op = "idle" /\ \E srv \in UserSrvs : Register(srv)
DoUnregister == call.op = "idle" /\ \E tid \in TextureIds : Unregister(tid)
DoRender ==
    /\ call.op = "idle"
    /\ \E frame \in EmptyFrames : \E failAt \in 0 .. Fallible(frame) :
           RenderBatch(frame, failAt)

DoRenderFrame ==
    /\ call.op = "idle"
    /\ \E frame \in DrawFrames : \E failAt \in 0 .. Fallible(frame) :
           Render(frame, failAt)

\* the texture pool's life: registration and batches of texture deltas
Next == DoRegister \/ DoUnregister \/ DoRender \/ Return

Spec == Init /\ [][Next]_vars

\* whole frames: texture deltas, pipeline setup and draws
NextFrame == DoRegister \/ DoUnregister \/ DoRenderFrame \/ Return

SpecFrame == Init /\ [][NextFrame]_vars

DoDraw ==
    /\ call.op = "idle"
    /\ \E frame \in MeshFrames : \E failAt \in 0 .. Fallible(frame) :
           Render(frame, failAt)

\* frames of several meshes, drawn with the user textures registered so far
NextDraw == DoRegister \/ DoDraw \/ Return

SpecDraw == Init /\ [][NextDraw]_vars

DoUpload ==
    /\ call.op = "idle"
    /\ \E frame \in PartialFrames : \E failAt \in 0 .. Fallible(frame) :
           Render(frame, failAt)

\* full and partial uploads to one managed texture, beside the user textures
NextPartial == DoRegister \/ DoUpload \/ Return

SpecPartial == Init /\ [][NextPartial]_vars

DoDrawCorners ==
    /\ call.op = "idle"
    /\ \E frame \in CornerFrames : \E failAt \in 0 .. Fallible(frame) :
           Render(frame, failAt)

\* one mesh per frame, on render targets of every size
NextTransform == DoDrawCorners \/ Return

SpecTransform == Init /\ [][NextTransform]_vars

----------------------------------------------------------------------------
(* Properties *)

IsFullUpload(delta) ==
    is_whole(delta) /\ width(delta.image) > 0 /\ height(delta.image) > 0

\* the batch of the last render call
SetOf(c) == c.frame.textures_delta.set
FreeOf(c) == c.frame.textures_delta.free

UpdateCalls ==
    {"CreateTexture2D", "CreateShaderResourceView", "UpdateSubresource",
     "pool.insert", "pool.remove"}
BindCalls ==
    {"IASetPrimitiveTopology", "IASetInputLayout", "VSSetShader",
     "PSSetShader", "RSSetState", "RSSetViewports", "PSSetSamplers",
     "OMSetRenderTargets", "OMSetBlendState", "IASetVertexBuffers",
     "IASetIndexBuffer", "RSSetScissorRects", "PSSetShaderResources"}

\* C1: from register_user_texture returning t until unregister_user_texture(t),
\* get_srv(t) returns the view that was registered, whatever register,
\* unregister and render calls (with deltas for any ids) happen in between.
C1_UserTextureStaysRegistered ==
    \A t \in DOMAIN registered :
        get_srv(texture_pool, t) = Some(registered[t])

\* C2: register_user_texture stores a User entry under a user-namespace id
\* that no earlier register call returned and no full-upload delta ever used,
\* and the user-id counter never decreases.
C2_RegisterReturnsFreshId ==
    [][/\ texture_pool'.next_user_texture_id
            >= texture_pool.next_user_texture_id
       /\ call'.op = "register" =>
            /\ call'.ret.ns = "User"
            /\ call'.ret \notin DOMAIN registered \cup unregistered
            /\ call'.ret \notin uploaded
            /\ get(texture_pool'.pool, call'.ret)
                 = Some(UserTexture(call'.srv))]_vars

\* C3: unregister_user_texture(id) returns true and removes the entry of id
\* exactly when the pool holds a User entry for id; otherwise it returns false
\* and the pool and the user-id counter stay as they were.
C3_UnregisterOnlyUser ==
    [][call'.op = "unregister" =>
         LET tid == call'.tid
             pre == texture_pool.pool
             post == texture_pool'.pool
             had == tid \in DOMAIN pre /\ pre[tid].kind = "User"
         IN  /\ call'.ret = had
             /\ texture_pool'.next_user_texture_id
                  = texture_pool.next_user_texture_id
             /\ had => /\ DOMAIN post = DOMAIN pre \ {tid}
                       /\ \A k \in DOMAIN post : post[k] = pre[k]
             /\ ~had => post = pre]_vars

C3_Witness ==
    /\ call.op = "unregister"
    /\ call.ret = TRUE
    /\ \E k \in DOMAIN texture_pool.pool : texture_pool.pool[k].kind = "Managed"

\* C4: once unregister_user_texture(t) has returned true, get_srv(t) returns
\* nothing in every later state and a later unregister_user_texture(t)
\* returns false.
C4_UnregisteredStaysGone ==
    [][/\ \A t \in unregistered' : get_srv(texture_pool', t) = None
       /\ (call'.op = "unregister" /\ call'.tid \in unregistered)
            => call'.ret = FALSE]_vars

\* a set step never follows a free step
SetBeforeFree ==
    \A i, j \in DOMAIN steps :
        steps[i].phase = "set" /\ steps[j].phase = "free" => i < j

\* the batch holds a full upload for t and a free for t
UploadedAndFreed(t) ==
    /\ \E i \in DOMAIN SetOf(call) :
          SetOf(call)[i][1] = t /\ IsFullUpload(SetOf(call)[i][2])
    /\ \E j \in DOMAIN FreeOf(call) : FreeOf(call)[j] = t

C6_PartialRejected ==
    call.op = "render" =>
        \A i \in DOMAIN steps :
            (/\ steps[i].phase = "set"
             /\ ~is_whole(SetOf(call)[i][2])
             /\ \/ SetOf(call)[i][1] \notin DOMAIN steps[i].pre
                \/ steps[i].pre[SetOf(call)[i][1]].kind = "User")
            => /\ steps[i].ev = "reject"
               /\ steps[i].post = steps[i].pre
               /\ i < Len(SetOf(call)) + Len(FreeOf(call)) => Len(steps) > i
               /\ i = Len(steps) => call.update = "Ok"

C6_Witness ==
    /\ call.op = "render"
    /\ \E i \in DOMAIN steps :
          /\ steps[i].ev = "reject"
          /\ ~is_whole(SetOf(call)[i][2])
          /\ steps[i].tid \in DOMAIN steps[i].pre
          /\ steps[i].pre[steps[i].tid].kind = "User"
          /\ i < Len(steps)
          /\ steps[i + 1].ev = "insert"

\* C7: a free delta removes the entry of its id if and only if that entry is
\* Managed; naming a User entry or an absent id changes nothing and is no error.
C7_FreeRemovesOnlyManaged ==
    call.op = "render" =>
        \A i \in DOMAIN steps :
            steps[i].phase = "free" =>
                LET tid == FreeOf(call)[i - Len(SetOf(call))]
                    pre == steps[i].pre
                    post == steps[i].post
                    managed == tid \in DOMAIN pre /\ pre[tid].kind = "Managed"
                IN  /\ steps[i].tid = tid
                    /\ managed => DOMAIN post = DOMAIN pre \ {tid}
                    /\ ~managed => DOMAIN post = DOMAIN pre
                    /\ \A k \in DOMAIN post : post[k] = pre[k]
                    /\ steps[i].ev \in {"remove", "keep"}
                    /\ call.update = "Ok"

C7_Witness ==
    /\ call.op = "render"
    /\ \E i \in DOMAIN steps :
          /\ steps[i].phase = "free"
          /\ steps[i].tid \in DOMAIN steps[i].pre
          /\ steps[i].pre[steps[i].tid].kind = "User"
          /\ \E k \in DOMAIN steps[i].pre : steps[i].pre[k].kind = "Managed"

C9_DeltasAppliedFirst ==
    [][call'.op = "render" =>
         /\ \A i, j \in DOMAIN calls' :
               (calls'[i].call \in UpdateCalls
                  /\ calls'[j].call \notin UpdateCalls) => i < j
         /\ call'.update = "Ok" =>
               Len(steps') = Len(SetOf(call')) + Len(FreeOf(call'))
         /\ call'.update # "Ok" =>
               \A i \in DOMAIN calls' : calls'[i].call \in UpdateCalls
         /\ steps' = <<>> => texture_pool'.pool = texture_pool.pool
         /\ steps' # <<>> =>
               /\ steps'[1].pre = texture_pool.pool
               /\ texture_pool'.pool = steps'[Len(steps')].post
               /\ \A i \in 1 .. Len(steps') - 1 :
                     steps'[i + 1].pre = steps'[i].post]_vars

C9_Witness ==
    /\ call.op = "render"
    /\ call.frame.shapes > 0
    /\ \E i, j \in DOMAIN calls :
          /\ i < j
          /\ calls[i].call = "pool.insert"
          /\ calls[j].call = "DrawIndexed"

\* no pipeline state is bound and no draw call is issued in this step
NoGpuStateChange ==
    /\ ctx' = ctx
    /\ \A i \in DOMAIN calls' :
          calls'[i].call \notin BindCalls \cup {"DrawIndexed"}

\* C10, as claimed: render with an empty shape list returns Ok, binds no
\* pipeline state and issues no draw call.
C10_EmptyFrameReturnsOk ==
    [][(call'.op = "render" /\ call'.frame.shapes = 0) =>
         call'.res = "Ok" /\ NoGpuStateChange]_vars

\* C10, amended: render with an empty shape list binds no pipeline state and
\* issues no draw call, and returns Ok unless its texture update fails.
C10_EmptyFrameNoGpuState ==
    [][(call'.op = "render" /\ call'.frame.shapes = 0) =>
         /\ call'.update = "Ok" => call'.res = "Ok"
         /\ call'.update # "Ok" => call'.res = call'.update
         /\ NoGpuStateChange]_vars

C10_Witness ==
    /\ call.op = "render"
    /\ call.frame.shapes = 0
    /\ call.res = "Ok"
    /\ steps # <<>>
    /\ ctx # CallerState

\* the primitives egui_ctx.tessellate yielded in the last render call
PrimsOf(c) == c.frame.prims

\* a mesh primitive whose index count is not zero and is a multiple of 3
Survives(prim) ==
    /\ prim.kind = "Mesh"
    /\ Len(prim.indices) > 0
    /\ Len(prim.indices) % 3 = 0

\* the positions in the log `cs` of the calls made for primitive k
CallsOfMesh(cs, k) ==
    {j \in DOMAIN cs : "mesh" \in DOMAIN cs[j] /\ cs[j].mesh = k}
DrawsIn(cs) == {j \in DOMAIN cs : cs[j].call = "DrawIndexed"}

\* C11: no DrawIndexed is issued for a mesh whose index count is zero or not a
\* multiple of 3; no call at all is made for such a mesh, and the meshes after
\* it are still drawn.
C11_NoDrawForBadIndexCount ==
    call.op = "render" =>
        LET prims == PrimsOf(call) IN
        /\ \A j \in DrawsIn(calls) :
              /\ calls[j].IndexCount > 0
              /\ calls[j].IndexCount % 3 = 0
              /\ calls[j].IndexCount = Len(prims[calls[j].mesh].indices)
        /\ \A k \in DOMAIN prims :
              (prims[k].kind = "Mesh" /\ ~Survives(prims[k]))
                 => CallsOfMesh(calls, k) = {}
        /\ call.res = "Ok" =>
              \A k \in DOMAIN prims :
                  Survives(prims[k]) =>
                      \E j \in DrawsIn(calls) : calls[j].mesh = k

C11_Witness ==
    /\ call.op = "render"
    /\ call.res = "Ok"
    /\ Len(PrimsOf(call)) = 2
    /\ PrimsOf(call)[1].kind = "Mesh"
    /\ Len(PrimsOf(call)[1].indices) % 3 # 0
    /\ Survives(PrimsOf(call)[2])
    /\ \E j \in DrawsIn(calls) : calls[j].mesh = 2

\* C12: when no creation fails, the DrawIndexed calls of a render are, in
\* order, one per surviving mesh, each with the mesh's index count; the calls
\* made for a mesh are one block that creates its index and vertex buffer and
\* ends with its draw.
C12_OneDrawPerSurvivingMesh ==
    (call.op = "render" /\ call.res = "Ok") =>
        LET prims == PrimsOf(call)
            IsDraw(c) == c.call = "DrawIndexed"
            Keeps(k) == Survives(prims[k])
            draws == SelectSeq(calls, IsDraw)
            surviving == SelectSeq([k \in 1 .. Len(prims) |-> k], Keeps)
        IN  /\ Len(draws) = Len(surviving)
            /\ \A i \in DOMAIN draws :
                  /\ draws[i].mesh = surviving[i]
                  /\ draws[i].IndexCount = Len(prims[surviving[i]].indices)
            /\ \A j \in DrawsIn(calls) :
                  LET k == calls[j].mesh
                      block == CallsOfMesh(calls, k)
                      created == {i \in block : calls[i].call = "CreateBuffer"}
                  IN  /\ \A i \in block : i <= j
                      /\ \A i \in DOMAIN calls :
                            (\E a \in block : a <= i) /\ i <= j => i \in block
                      /\ Cardinality(created) = 2
                      /\ \E i \in created :
                            /\ calls[i].buf.kind = "ib"
                            /\ calls[i].buf.data = prims[k].indices
                      /\ \E i \in created :
                            /\ calls[i].buf.kind = "vb"
                            /\ Len(calls[i].buf.data) = Len(prims[k].vertices)

C12_Witness ==
    /\ call.op = "render"
    /\ call.res = "Ok"
    /\ Len(PrimsOf(call)) = 2
    /\ Survives(PrimsOf(call)[1])
    /\ Survives(PrimsOf(call)[2])
    /\ PrimsOf(call)[1] # PrimsOf(call)[2]
    /\ Cardinality(DrawsIn(calls)) = 2

\* the positions in the log `cs` of the bindings of pixel-shader slot 0
BindsIn(cs) == {j \in DOMAIN cs : cs[j].call = "PSSetShaderResources"}

\* C13: a surviving mesh whose texture id the pool cannot resolve binds nothing
\* at pixel-shader slot 0 and is drawn all the same; slot 0 holds what the last
\* resolvable mesh bound, or else what was bound before the call; and the call
\* returns Ok when no creation fails.
C13_UnresolvedTextureStillDraws ==
    [][call'.op = "render" =>
         LET prims == PrimsOf(call')
             srvOf(k) == get_srv(texture_pool', prims[k].texture_id)
             binds == BindsIn(calls')
         IN  /\ \A k \in DOMAIN prims :
                   (Survives(prims[k]) /\ srvOf(k) = None) =>
                       /\ \A j \in CallsOfMesh(calls', k) : j \notin binds
                       /\ call'.res = "Ok" =>
                             \E j \in DrawsIn(calls') : calls'[j].mesh = k
             /\ \A j \in binds :
                   /\ "mesh" \in DOMAIN calls'[j]
                   /\ srvOf(calls'[j].mesh) = Some(calls'[j].srv)
             /\ ctx'.srv0 = IF binds = {} THEN ctx.srv0
                            ELSE calls'[Max(binds)].srv
             /\ (call'.failAt = 0 /\ call'.update = "Ok") => call'.res = "Ok"]_vars

C13_Witness ==
    /\ call.op = "render"
    /\ call.res = "Ok"
    /\ Len(PrimsOf(call)) = 2
    /\ Survives(PrimsOf(call)[1])
    /\ Survives(PrimsOf(call)[2])
    /\ get_srv(texture_pool, PrimsOf(call)[1].texture_id) # None
    /\ get_srv(texture_pool, PrimsOf(call)[2].texture_id) = None
    /\ \E j \in DrawsIn(calls) : calls[j].mesh = 2
    /\ ctx.srv0 \in UserSrvs

\* the items the renderer tolerates, apart from the unresolvable texture:
\* a callback primitive or a mesh with a bad index count gets no device call,
\* and a partial-upload delta whose id is absent or user-owned leaves the pool
\* as it was and is followed by the rest of the batch
DroppedItemsSkipped ==
    /\ \A k \in DOMAIN PrimsOf(call) :
          ~Survives(PrimsOf(call)[k]) => CallsOfMesh(calls, k) = {}
    /\ \A i \in DOMAIN steps :
          (/\ steps[i].phase = "set"
           /\ ~IsFullUpload(SetOf(call)[i][2])
           /\ \A t \in get(steps[i].pre, steps[i].tid) : is_user(t))
          => /\ steps[i].post = steps[i].pre
             /\ i = Len(steps) => call.update = "Ok"

\* the surviving meshes whose texture id the pool cannot resolve
UnresolvedMeshes ==
    {k \in DOMAIN PrimsOf(call) :
        /\ Survives(PrimsOf(call)[k])
        /\ get_srv(texture_pool, PrimsOf(call)[k].texture_id) = None}

\* the rest of the frame renders: without a creation failure the call returns
\* Ok and every surviving mesh whose texture resolves is drawn
RestOfFrameRenders ==
    /\ call.failAt = 0 => call.res = "Ok"
    /\ call.res = "Ok" =>
          \A k \in DOMAIN PrimsOf(call) \ UnresolvedMeshes :
              Survives(PrimsOf(call)[k]) =>
                  \E j \in DrawsIn(calls) : calls[j].mesh = k

\* C14, as claimed: every tolerated item is skipped, and so is the draw of a
\* mesh whose texture id cannot be resolved: no DrawIndexed is issued for it.
C14_UnresolvedDrawSkipped ==
    call.op = "render" =>
        /\ DroppedItemsSkipped
        /\ RestOfFrameRenders
        /\ \A k \in UnresolvedMeshes :
              \A j \in DrawsIn(calls) : calls[j].mesh # k

\* C14, amended: every tolerated item is skipped, but for a mesh whose texture
\* id cannot be resolved only the binding of slot 0 is skipped: its buffers
\* and scissor rectangle are bound and its DrawIndexed is issued.
C14_OnlyBindingSkipped ==
    call.op = "render" =>
        /\ DroppedItemsSkipped
        /\ RestOfFrameRenders
        /\ \A k \in UnresolvedMeshes :
              /\ CallsOfMesh(calls, k) \cap BindsIn(calls) = {}
              /\ call.res = "Ok" =>
                    /\ \E j \in DrawsIn(calls) : calls[j].mesh = k
                    /\ \E j \in CallsOfMesh(calls, k) :
                          calls[j].call = "RSSetScissorRects"

C14_Witness ==
    /\ call.op = "render"
    /\ call.res = "Ok"
    /\ \E i \in DOMAIN steps : steps[i].ev = "reject"
    /\ \E k \in DOMAIN PrimsOf(call) : PrimsOf(call)[k].kind = "Callback"
    /\ \E k \in UnresolvedMeshes :
          \E j \in DrawsIn(calls) : calls[j].mesh = k

\* the device calls that can fail: the creations and the introspection of the
\* render target
FallibleCalls ==
    {"CreateTexture2D", "CreateShaderResourceView", "GetResource", "cast",
     "CreateBuffer"}

\* C15: a render in which a creation or the render-target introspection fails
\* returns an error; the failing call is the last call it makes, so nothing is
\* retried; and a render in which none fails does not return an error.
C15_CreationFailureSurfaced ==
    call.op = "render" =>
        LET made == {j \in DOMAIN calls : calls[j].call \in FallibleCalls} IN
        /\ call.failAt > 0 =>
              /\ call.res = "Err"
              /\ Cardinality(made) = call.failAt
              /\ Len(calls) \in made
        /\ call.failAt = 0 => call.res # "Err"

C15_Witness ==
    /\ call.op = "render"
    /\ call.res = "Err"
    /\ \E i \in DOMAIN steps : steps[i].ev = "insert"
    /\ DrawsIn(calls) # {}
    /\ calls[Len(calls)].call = "CreateBuffer"
    /\ calls[Len(calls)].buf.kind = "vb"

\* the calls of setup, in program order
SetupCalls ==
    <<"IASetPrimitiveTopology", "IASetInputLayout", "VSSetShader",
      "PSSetShader", "RSSetState", "RSSetViewports", "PSSetSamplers",
      "OMSetRenderTargets", "OMSetBlendState">>

\* the log holds the calls of setup, once and in order, before every call made
\* for a mesh, and the context holds the fixed pipeline state
FixedStateBound ==
    /\ \E j0 \in 0 .. Len(calls) - Len(SetupCalls) :
          /\ \A i \in DOMAIN SetupCalls : calls[j0 + i].call = SetupCalls[i]
          /\ calls[j0 + 6].viewport = <<call.frame.render_target.Width,
                                        call.frame.render_target.Height>>
          /\ calls[j0 + 8].rtv = call.frame.render_target.name
          /\ \A k \in DOMAIN PrimsOf(call) :
                \A j \in CallsOfMesh(calls, k) : j > j0 + Len(SetupCalls)
    /\ \A n \in DOMAIN SetupCalls :
          Cardinality({j \in DOMAIN calls : calls[j].call = SetupCalls[n]}) = 1
    /\ ctx.topology = "TRIANGLELIST"
    /\ ctx.input_layout = "input_layout"
    /\ ctx.vs = "vertex_shader"
    /\ ctx.ps = "pixel_shader"
    /\ ctx.rs = "rasterizer_state"
    /\ ctx.viewport = <<call.frame.render_target.Width,
                        call.frame.render_target.Height>>
    /\ ctx.sampler0 = "sampler_state"
    /\ ctx.rtv = call.frame.render_target.name
    /\ ctx.blend = "blend_state"

\* the render got past the texture update and the render-target introspection
SetupReached ==
    /\ call.update = "Ok"
    /\ \E j \in DOMAIN calls : calls[j].call = "GetDesc"

\* C19, as claimed: every render call with a non-empty shape list binds the
\* fixed pipeline state, before any call made for a mesh.
C19_FixedStateAlwaysBound ==
    (call.op = "render" /\ call.frame.shapes > 0) => FixedStateBound

\* C19, amended: every render call with a non-empty shape list whose texture
\* update and render-target introspection succeed binds the fixed pipeline
\* state, before any call made for a mesh and whatever happens to the meshes;
\* a call that fails before that binds nothing.
C19_FixedStateBoundAfterIntrospection ==
    (call.op = "render" /\ call.frame.shapes > 0) =>
        /\ SetupReached <=>
              ~(/\ call.res = "Err"
                /\ calls[Len(calls)].call
                     \in {"CreateTexture2D", "CreateShaderResourceView",
                          "GetResource", "cast"})
        /\ SetupReached => FixedStateBound
        /\ ~SetupReached =>
              \A j \in DOMAIN calls :
                  calls[j].call \notin BindCalls \cup {"DrawIndexed"}

C19_Witness ==
    /\ call.op = "render"
    /\ call.frame.shapes > 0
    /\ call.res = "Ok"
    /\ Len(PrimsOf(call)) = 2
    /\ \A k \in DOMAIN PrimsOf(call) : ~Survives(PrimsOf(call)[k])
    /\ ctx.topology = "TRIANGLELIST"
    /\ ctx.vb = <<>>

\* the clip rectangle of primitive `prim` in physical pixels
ScaledClip(prim) ==
    LET scale == call.frame.pixels_per_point * call.frame.zoom_factor IN
    Rect(prim.clip_rect.left * scale, prim.clip_rect.top * scale,
         prim.clip_rect.right * scale, prim.clip_rect.bottom * scale)

\* C20: between the previous DrawIndexed and the DrawIndexed of mesh k, only
\* calls for mesh k are made, and among them are the binding of the vertex and
\* index buffer created for k, the scissor rectangle set to k's scaled clip
\* rectangle and, when k's texture id resolves, the binding of its view at
\* slot 0.
C20_DrawUsesOwnBindings ==
    call.op = "render" =>
        \A j \in DrawsIn(calls) :
            LET k == calls[j].mesh
                prim == PrimsOf(call)[k]
                prev == Max({0} \cup {i \in DrawsIn(calls) : i < j})
                block == {i \in prev + 1 .. j : "mesh" \in DOMAIN calls[i]}
                srv == get_srv(texture_pool, prim.texture_id)
            IN  /\ \A i \in block : calls[i].mesh = k
                /\ \E i \in block :
                      /\ calls[i].call = "IASetVertexBuffers"
                      /\ calls[i].buf.kind = "vb"
                      /\ calls[i].buf.mesh = k
                      /\ Len(calls[i].buf.data) = Len(prim.vertices)
                /\ \E i \in block :
                      /\ calls[i].call = "IASetIndexBuffer"
                      /\ calls[i].buf.kind = "ib"
                      /\ calls[i].buf.mesh = k
                      /\ calls[i].buf.data = prim.indices
                /\ \E i \in block :
                      /\ calls[i].call = "RSSetScissorRects"
                      /\ calls[i].rect = ScaledClip(prim)
                /\ \A i \in block :
                      calls[i].call = "RSSetScissorRects"
                          => calls[i].rect = ScaledClip(prim)
                /\ srv # None =>
                      \E i \in block :
                          /\ calls[i].call = "PSSetShaderResources"
                          /\ Some(calls[i].srv) = srv
                /\ j = Max(DrawsIn(calls)) =>
                      /\ ctx.scissor = ScaledClip(prim)
                      /\ ctx.ib[1].mesh = k
                      /\ ctx.vb[1].mesh = k
                      /\ srv # None => Some(ctx.srv0) = srv

C20_Witness ==
    /\ call.op = "render"
    /\ call.res = "Ok"
    /\ Cardinality(DrawsIn(calls)) = 2
    /\ ScaledClip(PrimsOf(call)[1]) # ScaledClip(PrimsOf(call)[2])
    /\ ScaledClip(PrimsOf(call)[2]) # PrimsOf(call)[2].clip_rect
    /\ get_srv(texture_pool, PrimsOf(call)[1].texture_id) # None
    /\ get_srv(texture_pool, PrimsOf(call)[2].texture_id) # None
    /\ ctx.scissor = ScaledClip(PrimsOf(call)[2])

\* the vertex buffers created in the last render call
VertexBuffersIn(cs) ==
    {j \in DOMAIN cs : cs[j].call = "CreateBuffer" /\ cs[j].buf.kind = "vb"}

\* C17: with pixels_per_point 1 and zoom_factor 1 on a render target of size
\* (w, h), a vertex at (0, 0) is stored at (-1, 1) and a vertex at (w, h) at
\* (1, -1); the uv of every vertex is stored as it is.
C17_CornersMapToNdc ==
    (/\ call.op = "render"
     /\ call.frame.pixels_per_point = 1
     /\ call.frame.zoom_factor = 1) =>
        \A j \in VertexBuffersIn(calls) :
            LET given == PrimsOf(call)[calls[j].mesh].vertices
                stored == calls[j].buf.data
                w == call.frame.render_target.Width
                h == call.frame.render_target.Height
            IN  /\ Len(stored) = Len(given)
                /\ \A i \in DOMAIN given :
                      /\ stored[i].uv = given[i].uv
                      /\ given[i].pos = <<0, 0>>
                            => stored[i].pos = <<F(-1), F(1)>>
                      /\ given[i].pos = <<w, h>>
                            => stored[i].pos = <<F(1), F(-1)>>

C17_Witness ==
    /\ call.op = "render"
    /\ call.res = "Ok"
    /\ call.frame.pixels_per_point = 1
    /\ call.frame.zoom_factor = 1
    /\ call.frame.render_target.Width = 3
    /\ call.frame.render_target.Height = 2
    /\ ctx.vb # <<>>
    /\ ctx.vb[1].data[1].pos = <<F(-1), F(1)>>
    /\ ctx.vb[1].data[2].pos = <<F(1), F(-1)>>
    /\ ctx.vb[1].data[2].uv = <<1, 1>>
    /\ PrimsOf(call)[1].vertices[2].pos = <<3, 2>>

\* C16: after an update that completes, the content of every managed texture
\* on the device equals its resident pixel buffer, the buffer holds width
\* times height pixels, and a partial upload changes neither the buffer's
\* length nor the width.
C16_GpuMatchesPixels ==
    ~(call.op = "render" /\ call.update = "Panic") =>
        /\ \A t \in DOMAIN texture_pool.pool :
              LET e == texture_pool.pool[t] IN
              is_managed(e) =>
                  /\ e.tex.data = e.pixels
                  /\ Len(e.pixels) = e.width * e.tex.Height
        /\ \A i \in DOMAIN steps :
              steps[i].ev = "partial" =>
                  LET old == steps[i].pre[steps[i].tid]
                      now == steps[i].post[steps[i].tid]
                  IN  /\ Len(now.pixels) = Len(old.pixels)
                      /\ now.width = old.width

\* the partial uploads of the last update that completed, by position in
\* `steps`, and the UpdateSubresource calls of the update, in order
PartialSteps == {i \in DOMAIN steps : steps[i].ev = "partial"}
RegionUpdates ==
    LET IsUpdate(c) == c.call = "UpdateSubresource" IN SelectSeq(calls, IsUpdate)

\* the sub-image of partial upload i lies within the columns of its texture
WithinRow(i) ==
    LET delta == SetOf(call)[i][2] IN
    unwrap(delta.pos)[1] + width(delta.image)
        <= steps[i].pre[steps[i].tid].width

\* Partial upload i wrote the sub-image into the rectangle at its offset, and
\* nothing else: pixel (x, y) of the sub-image is at index
\* (ny + y) * width + nx + x of the buffer, every pixel outside the rectangle
\* and every other pool entry is as before, and the one UpdateSubresource
\* call of the upload names the box of the rectangle, the sub-image's pixels
\* and a row pitch of 4 bytes per pixel of a sub-image row.
WroteSubRectangle(i) ==
    LET tid == steps[i].tid
        image == SetOf(call)[i][2].image
        nx == unwrap(SetOf(call)[i][2].pos)[1]
        ny == unwrap(SetOf(call)[i][2].pos)[2]
        sw == width(image)
        sh == height(image)
        old == steps[i].pre[tid]
        now == steps[i].post[tid]
        rank == Cardinality({j \in PartialSteps : j <= i})
        region == RegionUpdates[rank]
    IN  /\ \A x \in 0 .. sw - 1 : \A y \in 0 .. sh - 1 :
              now.pixels[(ny + y) * old.width + nx + x + 1]
                  = image.pixels[y * sw + x + 1]
        /\ Len(now.pixels) = Len(old.pixels)
        /\ \A p \in 1 .. Len(old.pixels) :
              LET col == (p - 1) % old.width
                  row == (p - 1) \div old.width
              IN  ~(/\ nx <= col /\ col < nx + sw
                    /\ ny <= row /\ row < ny + sh)
                  => now.pixels[p] = old.pixels[p]
        /\ DOMAIN steps[i].post = DOMAIN steps[i].pre
        /\ \A k \in DOMAIN steps[i].pre \ {tid} :
              steps[i].post[k] = steps[i].pre[k]
        /\ Len(RegionUpdates) = Cardinality(PartialSteps)
        /\ region.tex = old.tex
        /\ region.box = [left |-> nx, top |-> ny, front |-> 0,
                         right |-> nx + sw, bottom |-> ny + sh, back |-> 1]
        /\ region.row_pitch = sw * 4
        /\ region.data = image.pixels

\* C18, as claimed: every partial upload that completes writes exactly its
\* sub-rectangle and issues one region update for it.
C18_PartialWritesSubRectangle ==
    call.op = "render" => \A i \in PartialSteps : WroteSubRectangle(i)

\* C18, amended: the same, for the partial uploads whose sub-image lies within
\* the texture.
C18_PartialWithinTextureWritesSubRectangle ==
    call.op = "render" =>
        \A i \in PartialSteps : WithinRow(i) => WroteSubRectangle(i)

C18_Witness ==
    /\ call.op = "render"
    /\ call.update = "Ok"
    /\ \E i \in PartialSteps :
          /\ WithinRow(i)
          /\ SetOf(call)[i][2].image = SubCol
          /\ steps[i].post[steps[i].tid].pixels = <<1, 6, 3, 7>>
          /\ \E k \in DOMAIN steps[i].pre : is_user(steps[i].pre[k])

\* the ids of egui's own namespace
ManagedIds == {t \in TextureIds \cup DeltaIds : t.ns = "Managed"}

\* C21: after batches that were all applied successfully, a managed id resolves
\* through get_srv exactly when some batch gave it a full upload and neither
\* that batch nor a later one freed it; a partial upload and a rejected delta
\* neither create nor remove an entry.
C21_ManagedResolvesIffUploadedNotFreed ==
    /\ batchesOk =>
          \A t \in ManagedIds :
              get_srv(texture_pool, t) # None <=> t \in resident
    /\ call.op = "render" =>
          \A i \in DOMAIN steps :
              steps[i].ev \in {"partial", "reject"} =>
                  DOMAIN steps[i].post = DOMAIN steps[i].pre

C21_Witness ==
    /\ call.op = "render"
    /\ batchesOk
    /\ resident # {}
    /\ \E i, j \in DOMAIN steps :
          /\ steps[i].ev = "partial"
          /\ steps[i].tid \in resident
          /\ steps[j].ev = "reject"

\* the set deltas of the last batch that update routed to update_partial
PartialPath ==
    {i \in DOMAIN steps :
        /\ steps[i].phase = "set"
        /\ ~IsFullUpload(SetOf(call)[i][2])
        /\ \E t \in get(steps[i].pre, SetOf(call)[i][1]) : is_managed(t)}

\* C22: update never aborts on a missing offset: every set delta routed to
\* the partial-update path, a whole-image delta of zero width or height on a
\* Managed entry included, carries a position, so unwrapping it succeeds.
C22_PartialPathHasOffset ==
    call.op = "render" =>
        \A i \in PartialPath :
            /\ SetOf(call)[i][2].pos # None
            /\ ~(steps[i].ev = "panic" /\ SetOf(call)[i][2].pos = None)

\* C23: when CreateTexture2D or CreateShaderResourceView fails for a
\* full-upload delta, update returns the error at once: the failing id keeps
\* the entry it had, the set deltas before it stay applied, no later set delta
\* and no free delta of the batch is applied, and an id the batch asked to
\* free stays in the pool.
C23_CreationFailureStopsBatch ==
    [][(call'.op = "render" /\ call'.update = "Err") =>
         LET k == Len(steps')
             set == SetOf(call')
             free == FreeOf(call')
             pool == texture_pool'.pool
         IN  /\ call'.res = "Err"
             /\ k \in DOMAIN set
             /\ IsFullUpload(set[k][2])
             /\ steps'[k].ev = "error"
             /\ calls'[Len(calls')].call
                  \in {"CreateTexture2D", "CreateShaderResourceView"}
             /\ get(pool, set[k][1]) = get(steps'[k].pre, set[k][1])
             /\ pool = steps'[k].pre
             /\ steps'[1].pre = texture_pool.pool
             /\ \A i \in 1 .. k - 1 :
                   /\ steps'[i].ev \in {"insert", "partial", "reject"}
                   /\ steps'[i + 1].pre = steps'[i].post
                   /\ steps'[i].ev = "insert" =>
                         /\ steps'[i].post[set[i][1]].pixels = set[i][2].image.pixels
                         /\ (\A j \in i + 1 .. k - 1 : set[j][1] # set[i][1])
                               => pool[set[i][1]] = steps'[i].post[set[i][1]]
             /\ \A i \in DOMAIN calls' : calls'[i].call # "pool.remove"
             /\ Cardinality({i \in DOMAIN calls' : calls'[i].call = "pool.insert"})
                  = Cardinality({i \in 1 .. k - 1 : steps'[i].ev = "insert"})
             /\ \A j \in DOMAIN free :
                   (free[j] \in DOMAIN steps'[k].pre) => free[j] \in DOMAIN pool]_vars

C23_Witness ==
    /\ call.op = "render"
    /\ call.update = "Err"
    /\ LET tid == SetOf(call)[Len(steps)][1] IN
          /\ tid \in DOMAIN texture_pool.pool
          /\ texture_pool.pool[tid].kind = "Managed"
          /\ \E j \in DOMAIN FreeOf(call) : FreeOf(call)[j] = tid

\* the calls draw_mesh makes once both buffers exist
MeshBindCalls ==
    {"IASetVertexBuffers", "IASetIndexBuffer", "RSSetScissorRects",
     "PSSetShaderResources", "DrawIndexed"}

\* C24: when the creation of the index or the vertex buffer fails for the
\* k-th surviving mesh, render returns the error with the draws of the
\* surviving meshes before it issued, one each and in order, with no buffer
\* binding, scissor change, texture binding or draw call for that mesh or a
\* later one, and with the deltas of this render call applied to the pool.
C24_BufferFailureStopsFrame ==
    [][(/\ call'.op = "render"
        /\ call'.res = "Err"
        /\ calls' # <<>>
        /\ calls'[Len(calls')].call = "CreateBuffer")
       =>
         LET cs == calls'
             prims == PrimsOf(call')
             k == cs[Len(cs)].mesh
             drawOf(m) == {j \in DrawsIn(cs) : cs[j].mesh = m}
         IN  /\ k \in DOMAIN prims
             /\ Survives(prims[k])
             /\ \A m \in 1 .. k - 1 :
                   /\ Survives(prims[m]) => Cardinality(drawOf(m)) = 1
                   /\ ~Survives(prims[m]) => drawOf(m) = {}
             /\ \A i, j \in DrawsIn(cs) : i < j => cs[i].mesh < cs[j].mesh
             /\ \A j \in DOMAIN cs :
                   ("mesh" \in DOMAIN cs[j] /\ cs[j].mesh >= k)
                      => /\ cs[j].call = "CreateBuffer"
                         /\ cs[j].mesh = k
             /\ call'.update = "Ok"
             /\ Len(steps') = Len(SetOf(call')) + Len(FreeOf(call'))
             /\ steps' = <<>> => texture_pool'.pool = texture_pool.pool
             /\ steps' # <<>> =>
                   /\ steps'[1].pre = texture_pool.pool
                   /\ texture_pool'.pool = steps'[Len(steps')].post
                   /\ \A i \in 1 .. Len(steps') - 1 :
                         steps'[i + 1].pre = steps'[i].post
                   /\ \A i \in DOMAIN steps' : steps'[i].ev \notin {"error", "panic"}]_vars

C24_Witness ==
    /\ call.op = "render"
    /\ call.res = "Err"
    /\ calls # <<>>
    /\ calls[Len(calls)].call = "CreateBuffer"
    /\ calls[Len(calls)].buf.kind = "vb"
    /\ calls[Len(calls)].mesh = 2
    /\ \E j \in DrawsIn(calls) : calls[j].mesh = 1
    /\ \E i \in DOMAIN steps : steps[i].ev = "insert"
    /\ Managed(0) \in DOMAIN texture_pool.pool

====
